---- MODULE Spec2Model ----
(***************************************************************************)
(* Tool registry and tool executor of the agent SDK                        *)
(* (src/src/tools/registry.rs, src/src/tools/executor.rs).                 *)
(*                                                                         *)
(* Spec    : one shared ToolRegistry, the calls made on it, and callers of *)
(*           ToolExecutor::execute_by_name, whose lookup and run are two   *)
(*           steps between which other calls may change the registry.      *)
(* SpecPar : ToolExecutor::execute and ToolExecutor::execute_parallel on   *)
(*           tools handed over directly (no registry involved).            *)
(***************************************************************************)
EXTENDS Integers, Sequences, FiniteSets, TLC

(* ------------------------------ bounds -------------------------------- *)

\* Number of concurrent callers of execute_by_name.
NumCallers == 1

\* Largest batch handed to execute_parallel.
MaxBatch == 2

(* ------------------------- program constants -------------------------- *)

\* ToolExecutor::new(): Duration::from_secs(30), in milliseconds.
ExecutorDefaultTimeoutMs == 30000

\* ToolExecutionContext::new(): Duration::from_secs(30), in milliseconds.
ContextDefaultTimeoutMs == 30000

\* A short timeout given with with_timeout / with_default_timeout (10ms).
ShortTimeoutMs == 10

\* Running time of the slow tool's body (it sleeps 50ms).
SlowToolMs == 50

(* --------------------------- serde_json::Value ------------------------ *)

JNull == [t |-> "Null", s |-> "", n |-> 0]

JString(str) == [t |-> "String", s |-> str, n |-> 0]

JNumber(k) == [t |-> "Number", s |-> "", n |-> k]

\* Value::as_str(): Some(s) for a string, None otherwise.
AsStr(v) == IF v.t = "String" THEN [some |-> TRUE, v |-> v.s] ELSE [some |-> FALSE, v |-> ""]

UnwrapOr(opt, default) == IF opt.some THEN opt.v ELSE default

\* str::parse::<i32>() on the texts the model feeds, then unwrap_or(0):
\* a decimal numeral parses to its value, anything else is an Err.
ParseI32OrZero(str) ==
    CASE str = "0" -> 0
      [] str = "5" -> 5
      [] str = "7" -> 7
      [] OTHER -> 0

(* ------------------------------- errors ------------------------------- *)

\* IndubitablyError::ToolError(ToolError::ToolNotFound(msg))
ToolNotFound(msg) == [outer |-> "ToolError", inner |-> "ToolNotFound", msg |-> msg]

\* IndubitablyError::ToolError(ToolError::ExecutionFailed(msg))
ExecutionFailed(msg) == [outer |-> "ToolError", inner |-> "ExecutionFailed", msg |-> msg]

\* Display of IndubitablyError (thiserror): "Tool error: {0}", and of the
\* ToolError inside it: "Tool not found: {0}" / "Tool execution failed: {0}".
\* A text is the sequence of its pieces.
ErrorToString(e) ==
    << IF e.outer = "ToolError" THEN "Tool error: " ELSE "Internal error: ",
       CASE e.inner = "ToolNotFound" -> "Tool not found: "
         [] e.inner = "ExecutionFailed" -> "Tool execution failed: "
         [] OTHER -> "" >> \o e.msg

\* Debug of a Duration, for the durations the model uses.
DurationDebug(ms) ==
    IF ms % 1000 = 0 THEN <<ToString(ms \div 1000), "s">> ELSE <<ToString(ms), "ms">>

\* Duration::as_secs(): whole seconds.
AsSecs(ms) == ms \div 1000

(* -------------------------------- tools ------------------------------- *)

Names == {"double", "slow_echo"}

\* The tool bodies the model registers and runs.
Functions == {"double", "slow_echo", "fail", "panic"}

Inputs == {JString("5"), JNull}

\* Tool::new(name, description, function); the function is an Arc, shared
\* by every clone of the tool.
Tool(name, function) == [name |-> name, function |-> function]

AllTools == {Tool(n, f) : n \in Names, f \in Functions}

\* Outcome of a tool body: it returns Ok(value) or Err(error) after `took`
\* milliseconds, or it panics.
FnOk(v, took) == [kind |-> "Ok", value |-> v, error |-> ExecutionFailed(<<>>), took |-> took]

FnErr(e, took) == [kind |-> "Err", value |-> JNull, error |-> e, took |-> took]

FnPanic == [kind |-> "Panic", value |-> JNull, error |-> ExecutionFailed(<<>>), took |-> 0]

\* `double`: parses an integer from the text input and returns twice it.
DoubleFn(input) == FnOk(JNumber(ParseI32OrZero(UnwrapOr(AsStr(input), "0")) * 2), 0)

\* `slow_echo`: sleeps 50ms, then echoes its input.
SlowEchoFn(input) == FnOk(input, SlowToolMs)

\* A tool whose body returns a domain error.
FailFn(input) == FnErr(ExecutionFailed(<<"Intentional error">>), 0)

\* A tool whose body panics.
PanicFn(input) == FnPanic

\* The body the watcher gives every tool it loads: it returns "placeholder".
PlaceholderFn(input) == FnOk(JString("placeholder"), 0)

\* Tool::execute: (self.function)(input).
ToolExecute(tool, input) ==
    CASE tool.function = "double" -> DoubleFn(input)
      [] tool.function = "slow_echo" -> SlowEchoFn(input)
      [] tool.function = "fail" -> FailFn(input)
      [] tool.function = "placeholder" -> PlaceholderFn(input)
      [] OTHER -> PanicFn(input)

(* ------------------------ HashMap<String, Tool> ----------------------- *)

EmptyMap == [k \in {} |-> Tool("double", "double")]

\* A changed insert (entry().or_insert): an entry already there is kept.
MapInsertKeepsOld(m, key, value) ==
    [k \in DOMAIN m \cup {key} |-> IF k \in DOMAIN m THEN m[k] ELSE value]

\* HashMap::insert: the entry under `key` is added or replaced.
MapInsert(m, key, value) ==
    [k \in DOMAIN m \cup {key} |-> IF k = key THEN value ELSE m[k]]

\* A changed remove that only looks the entry up.
MapRemoveNothing(m, key) == m

\* A changed remove (retain with the test the wrong way round): the entry
\* under `key` is the only one kept.
MapRemoveRetainsKey(m, key) == [k \in DOMAIN m \cap {key} |-> m[k]]

\* HashMap::remove: the entry under `key`, if any, is dropped.
MapRemove(m, key) == [k \in DOMAIN m \ {key} |-> m[k]]

\* HashMap::get(..).cloned()
MapGet(m, key) ==
    IF key \in DOMAIN m THEN [some |-> TRUE, v |-> m[key]]
    ELSE [some |-> FALSE, v |-> Tool("double", "double")]

(* ------------------------- ToolExecutionResult ------------------------ *)

NoneText == [some |-> FALSE, v |-> <<>>]

SomeText(text) == [some |-> TRUE, v |-> text]

EmptyMeta == [k \in {} |-> JNull]

\* A changed success that does not store the output.
ResultSuccessDropsOutput(output, execution_time_ms) ==
    [success |-> TRUE, output |-> JNull, execution_time_ms |-> execution_time_ms,
     error |-> NoneText, metadata |-> EmptyMeta]

\* ToolExecutionResult::success
ResultSuccess(output, execution_time_ms) ==
    [success |-> TRUE, output |-> output, execution_time_ms |-> execution_time_ms,
     error |-> NoneText, metadata |-> EmptyMeta]

\* A changed failure that does not store the error.
ResultFailureDropsError(error, execution_time_ms) ==
    [success |-> FALSE, output |-> JNull, execution_time_ms |-> execution_time_ms,
     error |-> NoneText, metadata |-> EmptyMeta]

\* ToolExecutionResult::failure
ResultFailure(error, execution_time_ms) ==
    [success |-> FALSE, output |-> JNull, execution_time_ms |-> execution_time_ms,
     error |-> SomeText(error), metadata |-> EmptyMeta]

\* ToolExecutionResult::with_metadata
WithMetadata(result, key, value) ==
    [result EXCEPT !.metadata =
        [k \in DOMAIN result.metadata \cup {key} |->
            IF k = key THEN value ELSE result.metadata[k]]]

(* ------------------------- ToolExecutionContext ----------------------- *)

\* ToolExecutionContext::new: the timeout starts as 30 seconds.
ContextNew(tool_name, input) ==
    [tool_name |-> tool_name, input |-> input, timeout |-> ContextDefaultTimeoutMs]

\* ToolExecutionContext::with_timeout
WithTimeout(context, timeout) == [context EXCEPT !.timeout = timeout]

ContextTimeouts == {ContextDefaultTimeoutMs, ShortTimeoutMs}

(* ---------------------------- ToolExecutor ---------------------------- *)

\* The future handed to timeout(): `async { tool.execute(input) ... }`. Its
\* body has no .await, so the first poll runs the tool to its end: the
\* future is ready after `took` ms, with Ok(output) or Err(e.to_string()),
\* unless the tool panics.
InvokeFuture(tool, input) ==
    LET result == ToolExecute(tool, input)
    IN  [ready |-> TRUE,
         kind  |-> result.kind,
         value |-> result.value,
         error |-> IF result.kind = "Err" THEN ErrorToString(result.error) ELSE <<>>,
         took  |-> result.took]

\* tokio::time::timeout(duration, future).await: the future is polled
\* first; if that poll finds it ready its value is returned, however long
\* the poll took. Only a future that is still pending at the deadline
\* gives Err(Elapsed).
TokioTimeout(duration, future) ==
    IF future.ready
    THEN [elapsed |-> FALSE, waited |-> future.took]
    ELSE [elapsed |-> TRUE, waited |-> duration]

\* ToolExecutor::execute. A panic of the tool unwinds through execute.
Execute(tool, context) ==
    LET timeout_duration == context.timeout
        future == InvokeFuture(tool, context.input)
        execution_result == TokioTimeout(timeout_duration, future)
        execution_time_ms == execution_result.waited
        annotate(r) ==
            WithMetadata(
                WithMetadata(r, "tool_name", JString(context.tool_name)),
                "execution_time", JNumber(execution_time_ms))
    IN  CASE future.kind = "Panic" ->
               [kind |-> "Panic", result |-> ResultFailure(<<>>, 0)]
          [] ~execution_result.elapsed /\ future.kind = "Ok" ->
               [kind |-> "Return",
                result |-> annotate(ResultSuccess(future.value, execution_time_ms))]
          [] ~execution_result.elapsed /\ future.kind = "Err" ->
               [kind |-> "Return",
                result |-> annotate(ResultFailure(future.error, execution_time_ms))]
          [] OTHER ->
               [kind |-> "Return",
                result |->
                    WithMetadata(
                        annotate(ResultFailure(
                            <<"Tool '", context.tool_name, "' execution timed out after ">>
                                \o DurationDebug(timeout_duration),
                            execution_time_ms)),
                        "timeout", JNumber(AsSecs(timeout_duration)))]

(* ------------------------ ToolWatcher: its data ------------------------ *)

\* A path below the watch directory: the sub-directory it is in ("" for the
\* watch directory itself), its file stem and its extension ("" for none).
Path(parent, stem, ext) == [parent |-> parent, stem |-> stem, ext |-> ext]

NoPath == Path("", "", "")

\* The files the model creates, modifies and removes.
WatchPaths ==
    {Path("", "a", "rs"), Path("", "a", "toml"), Path("", "notes", "txt"),
     Path("sub", "b", "rs")}

TopLevel(path) == path.parent = ""

\* Path::extension(): None for a path without one.
Extension(path) ==
    IF path.ext = "" THEN [some |-> FALSE, v |-> ""] ELSE [some |-> TRUE, v |-> path.ext]

\* Path::file_stem(): None for a path without a file name.
FileStem(path) ==
    IF path.stem = "" THEN [some |-> FALSE, v |-> ""] ELSE [some |-> TRUE, v |-> path.stem]

\* ToolWatcherConfig::default()
ConfigDefault ==
    [recursive |-> TRUE, file_extensions |-> {"rs", "toml"},
     debounce_ms |-> 1000, enable_hot_reload |-> TRUE]

\* ToolWatcherConfig::with_recursive
WithRecursive(cfg, recursive) == [cfg EXCEPT !.recursive = recursive]

\* ToolWatcherConfig::with_hot_reload
WithHotReload(cfg, enable) == [cfg EXCEPT !.enable_hot_reload = enable]

\* The configurations a watcher is built with.
Configs ==
    {ConfigDefault, WithRecursive(ConfigDefault, FALSE), WithHotReload(ConfigDefault, FALSE)}

\* A changed filter that lets every file through.
ShouldWatchEveryFile(cfg, path) == TRUE

\* ToolWatcher::should_watch_file_static: the path has an extension and the
\* extension is in the allow-list.
ShouldWatchFileStatic(cfg, path) ==
    LET extension == Extension(path)
    IN  extension.some /\ extension.v \in cfg.file_extensions

\* The name a file's tool gets: file_stem(), or "unknown" without one.
ToolNameOf(path) == UnwrapOr(FileStem(path), "unknown")

\* The tool load_tool_file makes of a file.
PlaceholderTool(tool_name) == Tool(tool_name, "placeholder")

\* What the subscription puts on the raw channel: Ok(event) with the
\* event's kind and path, or Err(error).
RawEvent(kind, path) == [ok |-> TRUE, kind |-> kind, path |-> path]

RawError == [ok |-> FALSE, kind |-> "Error", path |-> NoPath]

\* ToolWatcherEvent
WatcherEvent(ev, path) == [ev |-> ev, path |-> path]

\* mpsc::channel(100): the capacity of the notification channel.
ChannelCapacity == 100

\* The consumer task before its first and between two raw events.
ConsumerAt(pc) == [pc |-> pc, item |-> RawError, names |-> {}, had |-> FALSE, settled |-> FALSE]

\* start() before it is called, and on its way. `existing` records the files
\* that were there when it was called, `quiet` whether it returned before any
\* file was changed.
StartAt(pc, entries, path, existing) ==
    [pc |-> pc, entries |-> entries, path |-> path, existing |-> existing, quiet |-> FALSE]

Callers == 1 .. NumCallers

VARIABLES
    tools,            \* ToolRegistry.tools: the map behind the RwLock
    default_timeout,  \* ToolExecutor.default_timeout, in ms
    pc,               \* per caller of execute_by_name: "idle" or "run"
    handle,           \* per caller: the Tool that registry.get gave it
    ctx,              \* per caller: the ToolExecutionContext it built
    lastOp,           \* the call that made the last step, with what it returned
    history,          \* per name, the last call that affected it
    par_pc,           \* execute_parallel: "idle", "join" (awaiting handles) or "done"
    executions,       \* execute_parallel: the submitted (tool, context) pairs
    task,             \* execute_parallel: per spawned task, how far it got
    completed,        \* execute_parallel: task indices in the order they ended
    results,          \* execute_parallel: the results pushed so far
    config,           \* ToolWatcher.config
    dir_exists,       \* whether the watch directory exists
    dir,              \* the files below the watch directory
    watcher,          \* ToolWatcher.watcher: "None" or "Some" (the subscription)
    start,            \* the call of start(): how far it got
    rawq,             \* the raw channel from the subscription to the consumer
    cons,             \* the task running process_events: how far it got
    loaded_tools,     \* ToolWatcher.loaded_tools: path -> tool name
    channel,          \* the notification channel (event_sender -> event_receiver)
    dropped,          \* whether the ToolWatcher has been dropped
    nevents,          \* file-system changes made so far
    reg_lock,         \* the RwLock around ToolRegistry.tools
    lt_lock,          \* the RwLock around ToolWatcher.loaded_tools
    ltask,            \* per task that takes the locks step by step: how far it got
    abs_tools         \* the registry's map had every call so far run on its own

regVars == <<tools, history>>

callerVars == <<pc, handle, ctx>>

parVars == <<par_pc, executions, task, completed, results>>

watchVars == <<config, dir_exists, dir, watcher, start, rawq, cons,
               loaded_tools, channel, dropped, nevents>>

lockVars == <<reg_lock, lt_lock, ltask, abs_tools>>

vars == <<tools, default_timeout, pc, handle, ctx, lastOp, history,
          par_pc, executions, task, completed, results, watchVars, lockVars>>

\* No task of the model.
NoTask == 0

\* tokio::sync::RwLock::new: no holder, nobody waiting.
LockFree == [writer |-> NoTask, readers |-> {}, queue |-> <<>>]

\* Where every call is one step (it takes its locks and releases them within
\* the step), the locks are free between the steps.
LocksUnused ==
    /\ reg_lock = LockFree
    /\ lt_lock = LockFree
    /\ ltask = <<>>
    /\ abs_tools = EmptyMap

\* ToolWatcher::new: no subscription, no consumer task, nothing loaded, an
\* empty notification channel.
WatcherNew(cfg) ==
    /\ config = cfg
    /\ watcher = "None"
    /\ start = StartAt("idle", {}, NoPath, {})
    /\ rawq = <<>>
    /\ cons = ConsumerAt("none")
    /\ loaded_tools = [k \in {} |-> ""]
    /\ channel = <<>>
    /\ dropped = FALSE
    /\ nevents = 0

\* No watcher is at work: one was built on an empty directory and is left
\* alone.
WatcherUnused ==
    /\ WatcherNew(ConfigDefault)
    /\ dir_exists = TRUE
    /\ dir = {}

NoCall == [op |-> "none"]

NoContext == ContextNew("double", JNull)

\* history[n] when the last call that affected n left no tool under it.
NoHistory(n, call) == [call |-> call, tool |-> Tool(n, "double")]

Init ==
    /\ tools = EmptyMap
    /\ default_timeout \in {ExecutorDefaultTimeoutMs, ShortTimeoutMs}
    /\ pc = [c \in Callers |-> "idle"]
    /\ handle = [c \in Callers |-> Tool("double", "double")]
    /\ ctx = [c \in Callers |-> NoContext]
    /\ lastOp = NoCall
    /\ history = [n \in Names |-> NoHistory(n, "none")]
    /\ par_pc = "idle"
    /\ executions = <<>>
    /\ task = <<>>
    /\ completed = <<>>
    /\ results = <<>>
    /\ WatcherUnused
    /\ LocksUnused

(* ---------------------------- ToolRegistry ---------------------------- *)
\* Each call takes the RwLock, works on the map and releases the lock
\* without an .await in between: one step.

\* A changed register that refuses a name already taken.
registerRejectsDuplicate(tool) ==
    /\ tools' = IF tool.name \in DOMAIN tools THEN tools
                ELSE [k \in DOMAIN tools \cup {tool.name} |->
                         IF k = tool.name THEN tool ELSE tools[k]]
    /\ lastOp' = [op |-> "register", tool |-> tool,
                  replaced |-> IF tool.name \in DOMAIN tools
                               THEN [some |-> TRUE, v |-> tools[tool.name]]
                               ELSE [some |-> FALSE, v |-> tool],
                  ret |-> IF tool.name \in DOMAIN tools THEN "Err" ELSE "Ok"]
    /\ history' = IF tool.name \in DOMAIN tools THEN history
                  ELSE [history EXCEPT ![tool.name] = [call |-> "register", tool |-> tool]]
    /\ UNCHANGED <<default_timeout, watchVars, lockVars, pc, handle, ctx,
                   par_pc, executions, task, completed, results>>

\* ToolRegistry::register. `replaced` is what HashMap::insert hands back (the
\* entry it replaced), which register drops.
register(tool) ==
    /\ tools' = MapInsert(tools, tool.name, tool)
    /\ lastOp' = [op |-> "register", tool |-> tool,
                  replaced |-> MapGet(tools, tool.name), ret |-> "Ok"]
    /\ history' = [history EXCEPT ![tool.name] = [call |-> "register", tool |-> tool]]
    /\ UNCHANGED <<default_timeout, watchVars, lockVars, callerVars, parVars>>

\* ToolRegistry::unregister. `removed` is what HashMap::remove hands back,
\* which unregister drops.
unregister(name) ==
    /\ tools' = MapRemove(tools, name)
    /\ lastOp' = [op |-> "unregister", name |-> name,
                  removed |-> MapGet(tools, name), ret |-> "Ok"]
    /\ history' = [history EXCEPT ![name] = NoHistory(name, "unregister")]
    /\ UNCHANGED <<default_timeout, watchVars, lockVars, callerVars, parVars>>

\* ToolRegistry::clear
clear ==
    /\ tools' = EmptyMap
    /\ lastOp' = [op |-> "clear", ret |-> "Ok"]
    /\ history' = [n \in Names |-> NoHistory(n, "clear")]
    /\ UNCHANGED <<default_timeout, watchVars, lockVars, callerVars, parVars>>

\* ToolRegistry::get
get(name) ==
    /\ lastOp' = [op |-> "get", name |-> name, ret |-> MapGet(tools, name)]
    /\ UNCHANGED <<regVars, default_timeout, watchVars, lockVars, callerVars, parVars>>

\* ToolRegistry::exists
exists(name) ==
    /\ lastOp' = [op |-> "exists", name |-> name, ret |-> (name \in DOMAIN tools)]
    /\ UNCHANGED <<regVars, default_timeout, watchVars, lockVars, callerVars, parVars>>

\* ToolRegistry::count
count ==
    /\ lastOp' = [op |-> "count", ret |-> Cardinality(DOMAIN tools)]
    /\ UNCHANGED <<regVars, default_timeout, watchVars, lockVars, callerVars, parVars>>

(* ----------------------- execute_by_name callers ---------------------- *)

\* A changed context that leaves out with_timeout.
ByNameContextKeepsDefault(tool_name, input) == ContextNew(tool_name, input)

\* The context execute_by_name builds for the tool it found.
ByNameContext(tool_name, input) ==
    WithTimeout(ContextNew(tool_name, input), default_timeout)

\* A changed miss that reports a failed execution.
NotFoundAsExecutionFailed(tool_name) ==
    ExecutionFailed(<<"Tool '", tool_name, "' not found">>)

\* The error execute_by_name makes of a miss.
NotFoundError(tool_name) == ToolNotFound(<<"Tool '", tool_name, "' not found">>)

\* ToolExecutor::execute_by_name, up to the end of `registry.get().await`:
\* a miss returns Err(ToolNotFound) at once; a hit keeps the tool and goes
\* on to execute.
ExecuteByNameLookup(c, tool_name, input) ==
    /\ pc[c] = "idle"
    /\ LET found == MapGet(tools, tool_name)
       IN  IF ~found.some
           THEN /\ lastOp' = [op |-> "execute_by_name", caller |-> c,
                              name |-> tool_name, input |-> input,
                              ret |-> [kind |-> "Err",
                                       error |-> NotFoundError(tool_name)]]
                /\ UNCHANGED callerVars
           ELSE /\ pc' = [pc EXCEPT ![c] = "run"]
                /\ handle' = [handle EXCEPT ![c] = found.v]
                /\ ctx' = [ctx EXCEPT ![c] = ByNameContext(tool_name, input)]
                /\ lastOp' = [op |-> "execute_by_name.get", caller |-> c,
                              name |-> tool_name, input |-> input]
    /\ UNCHANGED <<regVars, default_timeout, watchVars, lockVars, parVars>>

\* ToolExecutor::execute_by_name, `Ok(self.execute(&tool, context).await)`.
ExecuteByNameRun(c) ==
    /\ pc[c] = "run"
    /\ LET r == Execute(handle[c], ctx[c])
       IN  lastOp' = [op |-> "execute_by_name", caller |-> c,
                      name |-> ctx[c].tool_name, input |-> ctx[c].input,
                      tool |-> handle[c], context |-> ctx[c],
                      ret |-> IF r.kind = "Panic"
                              THEN [kind |-> "Panic"]
                              ELSE [kind |-> "Ok", result |-> r.result]]
    /\ pc' = [pc EXCEPT ![c] = "idle"]
    /\ handle' = [handle EXCEPT ![c] = Tool("double", "double")]
    /\ ctx' = [ctx EXCEPT ![c] = NoContext]
    /\ UNCHANGED <<regVars, default_timeout, watchVars, lockVars, parVars>>

Next ==
    \/ \E t \in AllTools : register(t)
    \/ \E n \in Names : unregister(n)
    \/ clear
    \/ \E n \in Names : get(n)
    \/ \E n \in Names : exists(n)
    \/ count
    \/ \E c \in Callers, n \in Names, i \in Inputs : ExecuteByNameLookup(c, n, i)
    \/ \E c \in Callers : ExecuteByNameRun(c)

Spec == Init /\ [][Next]_vars

(* ------------------------ execute, execute_parallel ------------------- *)

Contexts ==
    {WithTimeout(ContextNew(n, i), t) : n \in Names, i \in Inputs, t \in ContextTimeouts}

\* A direct call of ToolExecutor::execute.
execute(tool, context) ==
    /\ lastOp' = [op |-> "execute", tool |-> tool, context |-> context,
                  ret |-> Execute(tool, context)]
    /\ UNCHANGED <<regVars, default_timeout, watchVars, lockVars, callerVars, parVars>>

\* The tools a batch is made of: one per tool body.
ParTools ==
    {Tool("double", "double"), Tool("slow_echo", "slow_echo"),
     Tool("double", "fail"), Tool("slow_echo", "panic")}

\* The pairs a batch is made of.
ParPairs ==
    {<<t, WithTimeout(ContextNew(t.name, JString("5")), ShortTimeoutMs)>> : t \in ParTools}

Batches == UNION {[1 .. k -> ParPairs] : k \in 0 .. MaxBatch}

Spawned == [st |-> "spawned", result |-> ResultFailure(<<>>, 0)]

\* execute_parallel, first loop: one tokio::spawn per pair, handles kept
\* in submission order.
ExecuteParallelSpawn(batch) ==
    /\ par_pc = "idle"
    /\ executions' = batch
    /\ task' = [i \in 1 .. Len(batch) |-> Spawned]
    /\ completed' = <<>>
    /\ results' = <<>>
    /\ par_pc' = "join"
    /\ lastOp' = [op |-> "execute_parallel.spawn"]
    /\ UNCHANGED <<regVars, default_timeout, watchVars, lockVars, callerVars>>

\* A changed task whose panic brings down the tasks spawned with it that
\* have not run yet.
TaskRunAbortsSiblings(i) ==
    /\ par_pc = "join"
    /\ i \in 1 .. Len(task)
    /\ task[i].st = "spawned"
    /\ LET r == Execute(executions[i][1], executions[i][2])
       IN  /\ task' = [j \in 1 .. Len(task) |->
                        IF j = i
                        THEN IF r.kind = "Panic"
                             THEN [st |-> "panicked", result |-> ResultFailure(<<>>, 0)]
                             ELSE [st |-> "finished", result |-> r.result]
                        ELSE IF r.kind = "Panic" /\ task[j].st = "spawned"
                             THEN [st |-> "cancelled", result |-> ResultFailure(<<>>, 0)]
                             ELSE task[j]]
           /\ completed' =
                 IF r.kind = "Panic"
                 THEN completed \o <<i>> \o
                      (IF \E j \in 1 .. Len(task) : j # i /\ task[j].st = "spawned"
                       THEN <<CHOOSE j \in 1 .. Len(task) : j # i /\ task[j].st = "spawned">>
                       ELSE <<>>)
                 ELSE Append(completed, i)
    /\ UNCHANGED <<regVars, default_timeout, watchVars, lockVars, callerVars, lastOp,
                   par_pc, executions, results>>

\* A spawned task runs `executor.execute(&tool, context).await`; a panic of
\* the tool ends the task with a JoinError.
TaskRun(i) ==
    /\ par_pc = "join"
    /\ i \in 1 .. Len(task)
    /\ task[i].st = "spawned"
    /\ LET r == Execute(executions[i][1], executions[i][2])
       IN  task' = [task EXCEPT ![i] =
                        IF r.kind = "Panic"
                        THEN [st |-> "panicked", result |-> ResultFailure(<<>>, 0)]
                        ELSE [st |-> "finished", result |-> r.result]]
    /\ completed' = Append(completed, i)
    /\ UNCHANGED <<regVars, default_timeout, watchVars, lockVars, callerVars, lastOp,
                   par_pc, executions, results>>

\* The runtime drops a task that has not run (shutdown): its handle gives
\* a JoinError too.
TaskCancel(i) ==
    /\ par_pc = "join"
    /\ i \in 1 .. Len(task)
    /\ task[i].st = "spawned"
    /\ task' = [task EXCEPT ![i] = [st |-> "cancelled", result |-> ResultFailure(<<>>, 0)]]
    /\ completed' = Append(completed, i)
    /\ UNCHANGED <<regVars, default_timeout, watchVars, lockVars, callerVars, lastOp,
                   par_pc, executions, results>>

\* Display of tokio's JoinError.
JoinErrorDisplay(st) ==
    IF st = "panicked" THEN <<"task ", "panicked">> ELSE <<"task ", "was cancelled">>

\* What `handle.await` turns into: Ok(result) is pushed as it is, Err(e)
\* as failure("Task execution failed: {e}", 0).
JoinOutcome(t) ==
    IF t.st = "finished"
    THEN t.result
    ELSE ResultFailure(<<"Task execution failed: ">> \o JoinErrorDisplay(t.st), 0)

\* A changed second loop that takes the handles as their tasks end.
NextToJoinByCompletion ==
    IF Len(completed) > Len(results) THEN completed[Len(results) + 1] ELSE Len(results) + 1

\* The handle the second loop awaits next: `for handle in handles`.
NextToJoin == Len(results) + 1

\* execute_parallel, second loop: one `handle.await` and one push.
JoinNext ==
    /\ par_pc = "join"
    /\ Len(results) < Len(executions)
    /\ NextToJoin \in 1 .. Len(task)
    /\ task[NextToJoin].st # "spawned"
    /\ results' = Append(results, JoinOutcome(task[NextToJoin]))
    /\ UNCHANGED <<regVars, default_timeout, watchVars, lockVars, callerVars, lastOp,
                   par_pc, executions, task, completed>>

\* execute_parallel returns `results`.
ExecuteParallelReturn ==
    /\ par_pc = "join"
    /\ Len(results) = Len(executions)
    /\ par_pc' = "done"
    /\ lastOp' = [op |-> "execute_parallel", ret |-> results]
    /\ UNCHANGED <<regVars, default_timeout, watchVars, lockVars, callerVars,
                   executions, task, completed, results>>

\* The executor keeps no state between calls, so a call made while a batch
\* is in flight neither sees nor changes the batch: single calls are
\* explored before the batch is submitted.
NextPar ==
    \/ \E t \in AllTools, x \in Contexts : par_pc = "idle" /\ execute(t, x)
    \/ \E c \in Callers, n \in Names, i \in Inputs :
            par_pc = "idle" /\ ExecuteByNameLookup(c, n, i)
    \/ \E c \in Callers : ExecuteByNameRun(c)
    \/ \E b \in Batches :
            (\A c \in Callers : pc[c] = "idle") /\ ExecuteParallelSpawn(b)
    \/ \E i \in 1 .. MaxBatch : TaskRun(i)
    \/ \E i \in 1 .. MaxBatch : TaskCancel(i)
    \/ JoinNext
    \/ ExecuteParallelReturn

\* Registries left behind by earlier register calls.
Registered(m) ==
    [n \in Names |-> IF n \in DOMAIN m
                     THEN [call |-> "register", tool |-> m[n]]
                     ELSE NoHistory(n, "none")]

ParRegistries ==
    { MapInsert(MapInsert(EmptyMap, "double", Tool("double", "double")),
                "slow_echo", Tool("slow_echo", "slow_echo")),
      MapInsert(EmptyMap, "double", Tool("double", "fail")),
      MapInsert(EmptyMap, "slow_echo", Tool("slow_echo", "panic")) }

\* The executor of SpecPar is ToolExecutor::new(); the registry holds what
\* earlier register calls put there and is not changed any more.
InitPar ==
    /\ tools \in ParRegistries
    /\ history = Registered(tools)
    /\ default_timeout = ExecutorDefaultTimeoutMs
    /\ pc = [c \in Callers |-> "idle"]
    /\ handle = [c \in Callers |-> Tool("double", "double")]
    /\ ctx = [c \in Callers |-> NoContext]
    /\ lastOp = NoCall
    /\ par_pc = "idle"
    /\ executions = <<>>
    /\ task = <<>>
    /\ completed = <<>>
    /\ results = <<>>
    /\ WatcherUnused
    /\ LocksUnused

SpecPar == InitPar /\ [][NextPar]_vars

(* ----------------------------- ToolWatcher ---------------------------- *)
\* One ToolWatcher on one registry that nothing else writes to. start() and
\* the task it spawns (process_events) run on a thread pool: each step below
\* is the code between two points where the other may run.

MaxEvents == 2

\* What the executor part of the state is while the watcher is at work.
ExecutorUnused ==
    /\ default_timeout = ExecutorDefaultTimeoutMs
    /\ pc = [c \in Callers |-> "idle"]
    /\ handle = [c \in Callers |-> Tool("double", "double")]
    /\ ctx = [c \in Callers |-> NoContext]
    /\ history = [n \in Names |-> NoHistory(n, "none")]
    /\ par_pc = "idle"
    /\ executions = <<>>
    /\ task = <<>>
    /\ completed = <<>>
    /\ results = <<>>

execVars == <<default_timeout, callerVars, history, parVars>>

\* The directories a watcher is started on: missing, empty, two files with
\* the same stem, and a file in a sub-directory next to top-level files.
InitialDirs ==
    {{}, {Path("", "a", "rs"), Path("", "a", "toml")},
     {Path("", "a", "rs"), Path("", "notes", "txt"), Path("sub", "b", "rs")}}

\* ToolWatcher::should_watch_file (the method: it uses self.config).
ShouldWatchFile(path) ==
    LET extension == Extension(path)
    IN  extension.some /\ extension.v \in config.file_extensions

\* ToolWatcher::is_running
IsRunning == watcher = "Some"

\* A changed start() that makes the watch directory before it looks at
\* enable_hot_reload.
StartDisabledCreatesDir ==
    /\ start.pc = "idle"
    /\ ~dropped
    /\ ~config.enable_hot_reload
    /\ dir_exists' = TRUE
    /\ start' = [start EXCEPT !.pc = "done", !.existing = dir]
    /\ lastOp' = [op |-> "start", ret |-> "Ok"]
    /\ UNCHANGED <<tools, execVars, lockVars, config, dir, watcher, rawq, cons,
                   loaded_tools, channel, dropped, nevents>>

\* start() with hot reload disabled: Ok(()) at once.
StartDisabled ==
    /\ start.pc = "idle"
    /\ ~dropped
    /\ ~config.enable_hot_reload
    /\ start' = [start EXCEPT !.pc = "done", !.existing = dir]
    /\ lastOp' = [op |-> "start", ret |-> "Ok"]
    /\ UNCHANGED <<tools, execVars, lockVars, config, dir_exists, dir, watcher, rawq, cons,
                   loaded_tools, channel, dropped, nevents>>

\* start(): recommended_watcher(..)?, create_dir_all, watcher.watch(..)?
\* when one of them fails: the error is returned, nothing else was done.
StartSubscribeFails ==
    /\ start.pc = "idle"
    /\ ~dropped
    /\ config.enable_hot_reload
    /\ start' = [start EXCEPT !.pc = "done", !.existing = dir]
    /\ lastOp' = [op |-> "start", ret |-> "Err"]
    /\ UNCHANGED <<tools, execVars, lockVars, config, dir_exists, dir, watcher, rawq, cons,
                   loaded_tools, channel, dropped, nevents>>

\* start() up to and with tokio::spawn: the raw channel is made, the watch
\* directory is created if missing, the subscription is installed and kept
\* in self.watcher, and the consumer task is spawned.
StartSubscribe ==
    /\ start.pc = "idle"
    /\ ~dropped
    /\ config.enable_hot_reload
    /\ dir_exists' = TRUE
    /\ watcher' = "Some"
    /\ rawq' = <<>>
    /\ cons' = ConsumerAt("recv")
    /\ start' = StartAt("spawned", {}, NoPath, dir)
    /\ UNCHANGED <<tools, execVars, lockVars, lastOp, config, dir, loaded_tools, channel,
                   dropped, nevents>>

\* load_existing_tools: std::fs::read_dir(watch_directory) lists the entries
\* of the watch directory itself; those that should_watch_file rejects are
\* passed over.
ReadDir == {path \in dir : TopLevel(path)}

StartReadDir ==
    /\ start.pc = "spawned"
    /\ start' = [start EXCEPT !.pc = "loading",
                              !.entries = {path \in ReadDir : ShouldWatchFile(path)}]
    /\ UNCHANGED <<tools, execVars, lockVars, lastOp, config, dir_exists, dir, watcher, rawq,
                   cons, loaded_tools, channel, dropped, nevents>>

\* load_tool_file, `self.registry.register(tool).await?`
StartLoadRegister(path) ==
    /\ start.pc = "loading"
    /\ path \in start.entries
    /\ LET tool_name == ToolNameOf(path)
       IN  tools' = MapInsert(tools, tool_name, PlaceholderTool(tool_name))
    /\ start' = [start EXCEPT !.pc = "insert", !.path = path,
                              !.entries = start.entries \ {path}]
    /\ UNCHANGED <<execVars, lockVars, lastOp, config, dir_exists, dir, watcher, rawq, cons,
                   loaded_tools, channel, dropped, nevents>>

\* load_tool_file, `loaded_tools.insert(path, tool_name)`
StartLoadInsert ==
    /\ start.pc = "insert"
    /\ loaded_tools' = MapInsert(loaded_tools, start.path, ToolNameOf(start.path))
    /\ start' = [start EXCEPT !.pc = "loading", !.path = NoPath]
    /\ UNCHANGED <<tools, execVars, lockVars, lastOp, config, dir_exists, dir, watcher, rawq,
                   cons, channel, dropped, nevents>>

\* start() returns Ok(()) when the loop over the entries is through.
StartReturn ==
    /\ start.pc = "loading"
    /\ start.entries = {}
    /\ start' = [start EXCEPT !.pc = "done", !.quiet = (nevents = 0)]
    /\ lastOp' = [op |-> "start", ret |-> "Ok"]
    /\ UNCHANGED <<tools, execVars, lockVars, config, dir_exists, dir, watcher, rawq, cons,
                   loaded_tools, channel, dropped, nevents>>

\* load_existing_tools: `std::fs::read_dir(..)?` fails, and start() returns
\* the error through `self.load_existing_tools().await?`. The subscription
\* is in self.watcher by then and the consumer task is spawned; both stay.
StartReadDirFails ==
    /\ start.pc = "spawned"
    /\ start' = [start EXCEPT !.pc = "done"]
    /\ lastOp' = [op |-> "start", ret |-> "Err"]
    /\ UNCHANGED <<tools, execVars, lockVars, config, dir_exists, dir, watcher, rawq, cons,
                   loaded_tools, channel, dropped, nevents>>

\* Between two calls on the watcher: start, stop, next_event and drop take
\* `&mut self`, so none begins while start() is under way.
NoCallUnderWay == start.pc \in {"idle", "done"} /\ ~dropped

\* A changed stop that unloads what the watcher loaded.
stopUnloadsTools ==
    /\ start.pc \in {"idle", "done"} /\ ~dropped
    /\ watcher' = "None"
    /\ tools' = [k \in DOMAIN tools \ {loaded_tools[path] : path \in DOMAIN loaded_tools} |-> tools[k]]
    /\ loaded_tools' = [k \in {} |-> ""]
    /\ lastOp' = [op |-> "stop", was |-> watcher]
    /\ UNCHANGED <<execVars, lockVars, config, dir_exists, dir, start, rawq, cons,
                   channel, dropped, nevents>>

\* ToolWatcher::stop: self.watcher = None drops the subscription, and with
\* it the raw channel's sender.
stop ==
    /\ NoCallUnderWay
    /\ watcher' = "None"
    /\ lastOp' = [op |-> "stop", was |-> watcher]
    /\ UNCHANGED <<tools, execVars, lockVars, config, dir_exists, dir, start, rawq, cons,
                   loaded_tools, channel, dropped, nevents>>

\* Drop for ToolWatcher: stop(), then the fields go: the receiver of the
\* notification channel is closed and what it held is gone.
drop ==
    /\ NoCallUnderWay
    /\ watcher' = "None"
    /\ dropped' = TRUE
    /\ channel' = <<>>
    /\ lastOp' = [op |-> "drop", was |-> watcher]
    /\ UNCHANGED <<tools, execVars, lockVars, config, dir_exists, dir, start, rawq, cons,
                   loaded_tools, nevents>>

\* ToolWatcher::next_event when a notification is there: the oldest one.
\* (With none there the call waits: the watcher holds a sender itself.)
next_event ==
    /\ NoCallUnderWay
    /\ channel # <<>>
    /\ channel' = Tail(channel)
    /\ lastOp' = [op |-> "next_event", ret |-> Head(channel)]
    /\ UNCHANGED <<tools, execVars, lockVars, config, dir_exists, dir, watcher, start, rawq,
                   cons, loaded_tools, dropped, nevents>>

(* The file system and the subscription *)

\* The subscription covers the watch directory, and what is below its
\* sub-directories in RecursiveMode::Recursive.
Covered(path) == watcher = "Some" /\ (TopLevel(path) \/ config.recursive)

\* The subscription's callback: tx.send(res).
Deliver(item, path) ==
    rawq' = IF Covered(path) THEN Append(rawq, item) ELSE rawq

\* A file is created.
CreateFile(path) ==
    /\ dir_exists
    /\ path \notin dir
    /\ dir' = dir \cup {path}
    /\ Deliver(RawEvent("Create", path), path)
    /\ UNCHANGED <<tools, execVars, lockVars, lastOp, config, dir_exists, watcher, start, cons,
                   loaded_tools, channel, dropped>>

\* A file is written to.
ModifyFile(path) ==
    /\ path \in dir
    /\ Deliver(RawEvent("Modify", path), path)
    /\ UNCHANGED <<tools, execVars, lockVars, lastOp, config, dir_exists, dir, watcher, start,
                   cons, loaded_tools, channel, dropped>>

\* A file is removed.
RemoveFile(path) ==
    /\ path \in dir
    /\ dir' = dir \ {path}
    /\ Deliver(RawEvent("Remove", path), path)
    /\ UNCHANGED <<tools, execVars, lockVars, lastOp, config, dir_exists, watcher, start, cons,
                   loaded_tools, channel, dropped>>

\* The subscription reports an error of the file-system subsystem.
WatchError ==
    /\ watcher = "Some"
    /\ rawq' = Append(rawq, RawError)
    /\ UNCHANGED <<tools, execVars, lockVars, lastOp, config, dir_exists, dir, watcher, start,
                   cons, loaded_tools, channel, dropped>>

\* One more change of the file system, of the few the model follows.
Counted == nevents < MaxEvents /\ nevents' = nevents + 1 /\ start.pc # "idle"

(* process_events *)

\* A changed loop that ends at the first error of the subscription.
FirstStepStopsOnError(item) ==
    CASE ~item.ok -> "exited"
      [] item.kind = "Create" ->
            IF ShouldWatchFileStatic(config, item.path) THEN "register" ELSE "recv"
      [] item.kind = "Modify" ->
            IF ShouldWatchFileStatic(config, item.path) THEN "unload" ELSE "recv"
      [] item.kind = "Remove" -> "unload"
      [] OTHER -> "recv"

\* Where the handling of a raw item begins.
FirstStep(item) ==
    CASE ~item.ok -> "send"
      [] item.kind = "Create" ->
            IF ShouldWatchFileStatic(config, item.path) THEN "register" ELSE "recv"
      [] item.kind = "Modify" ->
            IF ShouldWatchFileStatic(config, item.path) THEN "unload" ELSE "recv"
      [] item.kind = "Remove" -> "unload"
      [] OTHER -> "recv"

\* `for res in rx`: the next raw item is taken. `names`, `had` and `settled`
\* record the registry's names, whether loaded_tools has the item's path, and
\* whether start() has returned, as the handling begins.
ConsumerTake ==
    /\ cons.pc = "recv"
    /\ rawq # <<>>
    /\ rawq' = Tail(rawq)
    /\ LET item == Head(rawq)
       IN  cons' = IF FirstStep(item) = "recv"
                   THEN ConsumerAt("recv")
                   ELSE [pc |-> FirstStep(item), item |-> item,
                         names |-> DOMAIN tools,
                         had |-> item.path \in DOMAIN loaded_tools,
                         settled |-> start.pc = "done"]
    /\ UNCHANGED <<tools, execVars, lockVars, lastOp, config, dir_exists, dir, watcher, start,
                   loaded_tools, channel, dropped, nevents>>

\* A changed reload that leaves the tool registered until the load
\* overwrites it.
ConsumerUnloadKeepsTool ==
    /\ cons.pc = "unload"
    /\ LET path == cons.item.path
       IN  /\ loaded_tools' = MapRemove(loaded_tools, path)
           /\ tools' = IF path \in DOMAIN loaded_tools /\ cons.item.kind # "Modify"
                       THEN MapRemove(tools, loaded_tools[path])
                       ELSE tools
    /\ cons' = [cons EXCEPT !.pc = IF cons.item.kind = "Modify" THEN "register" ELSE "send"]
    /\ UNCHANGED <<execVars, lockVars, lastOp, config, dir_exists, dir, watcher, start, rawq,
                   channel, dropped, nevents>>

\* unload_tool_file_static: with the write lock of loaded_tools held, the
\* path's entry is removed and, if there was one, its tool unregistered.
\* Nothing else takes that lock meanwhile, and unregister commutes with what
\* start() does to the registry but for the name itself.
ConsumerUnload ==
    /\ cons.pc = "unload"
    /\ LET path == cons.item.path
       IN  /\ loaded_tools' = MapRemove(loaded_tools, path)
           /\ tools' = IF path \in DOMAIN loaded_tools
                       THEN MapRemove(tools, loaded_tools[path])
                       ELSE tools
    /\ cons' = [cons EXCEPT !.pc = IF cons.item.kind = "Modify" THEN "register" ELSE "send"]
    /\ UNCHANGED <<execVars, lockVars, lastOp, config, dir_exists, dir, watcher, start, rawq,
                   channel, dropped, nevents>>

\* load_tool_file_static, `registry.register(tool).await?`
ConsumerRegister ==
    /\ cons.pc = "register"
    /\ LET tool_name == ToolNameOf(cons.item.path)
       IN  tools' = MapInsert(tools, tool_name, PlaceholderTool(tool_name))
    /\ cons' = [cons EXCEPT !.pc = "insert"]
    /\ UNCHANGED <<execVars, lockVars, lastOp, config, dir_exists, dir, watcher, start, rawq,
                   loaded_tools, channel, dropped, nevents>>

\* load_tool_file_static, `loaded_tools.insert(path, tool_name)`
ConsumerInsert ==
    /\ cons.pc = "insert"
    /\ loaded_tools' = MapInsert(loaded_tools, cons.item.path, ToolNameOf(cons.item.path))
    /\ cons' = [cons EXCEPT !.pc = "send"]
    /\ UNCHANGED <<tools, execVars, lockVars, lastOp, config, dir_exists, dir, watcher, start,
                   rawq, channel, dropped, nevents>>

\* A changed notification that reports a created file as a loaded tool.
NotificationAsLoaded(item) ==
    CASE ~item.ok -> WatcherEvent("Error", NoPath)
      [] item.kind = "Create" -> WatcherEvent("ToolLoaded", item.path)
      [] item.kind = "Modify" -> WatcherEvent("ToolModified", item.path)
      [] OTHER -> WatcherEvent("ToolDeleted", item.path)

\* The notification for a handled raw item. register and unregister return
\* Ok always, so load, reload and unload do: the Error arms of the three
\* file events are never taken.
Notification(item) ==
    CASE ~item.ok -> WatcherEvent("Error", NoPath)
      [] item.kind = "Create" -> WatcherEvent("ToolCreated", item.path)
      [] item.kind = "Modify" -> WatcherEvent("ToolModified", item.path)
      [] OTHER -> WatcherEvent("ToolDeleted", item.path)

\* `let _ = event_sender.send(..).await`: with the receiver gone the send
\* fails at once and the failure is dropped; with room in the channel the
\* notification is queued; with the channel full the send waits.
ConsumerSend ==
    /\ cons.pc = "send"
    /\ dropped \/ Len(channel) < ChannelCapacity
    /\ channel' = IF dropped THEN channel ELSE Append(channel, Notification(cons.item))
    /\ cons' = ConsumerAt("recv")
    /\ UNCHANGED <<tools, execVars, lockVars, lastOp, config, dir_exists, dir, watcher, start,
                   rawq, loaded_tools, dropped, nevents>>

\* `for res in rx` ends when the raw channel is empty and its sender gone.
ConsumerExit ==
    /\ cons.pc = "recv"
    /\ rawq = <<>>
    /\ watcher = "None"
    /\ cons' = ConsumerAt("exited")
    /\ UNCHANGED <<tools, execVars, lockVars, lastOp, config, dir_exists, dir, watcher, start,
                   rawq, loaded_tools, channel, dropped, nevents>>

Consumer ==
    \/ ConsumerTake
    \/ ConsumerUnload
    \/ ConsumerRegister
    \/ ConsumerInsert
    \/ ConsumerSend
    \/ ConsumerExit

NextWatch ==
    \/ StartDisabled
    \/ StartSubscribeFails
    \/ StartSubscribe
    \/ StartReadDir
    \/ StartReadDirFails
    \/ \E path \in WatchPaths : StartLoadRegister(path)
    \/ StartLoadInsert
    \/ StartReturn
    \/ stop
    \/ drop
    \/ next_event
    \/ \E path \in WatchPaths : Counted /\ CreateFile(path)
    \/ \E path \in WatchPaths : Counted /\ ModifyFile(path)
    \/ \E path \in WatchPaths : Counted /\ RemoveFile(path)
    \/ Counted /\ WatchError
    \/ ConsumerTake
    \/ ConsumerUnload
    \/ ConsumerRegister
    \/ ConsumerInsert
    \/ ConsumerSend
    \/ ConsumerExit

\* A new watcher on a new registry, and the directory it is to watch.
InitWatch ==
    /\ tools = EmptyMap
    /\ lastOp = NoCall
    /\ ExecutorUnused
    /\ LocksUnused
    /\ \E cfg \in Configs : WatcherNew(cfg)
    /\ dir \in InitialDirs
    /\ dir_exists \in BOOLEAN
    /\ dir # {} => dir_exists

SpecWatch == InitWatch /\ [][NextWatch]_vars

\* The consumer task is scheduled as long as it can take a step.
SpecWatchLive == SpecWatch /\ WF_vars(Consumer)

\* Raw events the flood keeps waiting in the raw channel at most.
MaxPending == 2

\* A file that is written to again and again; nothing bounds how often.
Flood(path) == Len(rawq) < MaxPending /\ UNCHANGED nevents /\ ModifyFile(path)

NextFlood ==
    \/ StartSubscribe
    \/ StartReadDir
    \/ \E path \in WatchPaths : StartLoadRegister(path)
    \/ StartLoadInsert
    \/ StartReturn
    \/ next_event
    \/ Flood(Path("", "a", "rs"))
    \/ ConsumerTake
    \/ ConsumerUnload
    \/ ConsumerRegister
    \/ ConsumerInsert
    \/ ConsumerSend

\* A new watcher with the default configuration on a directory of one file.
InitFlood ==
    /\ tools = EmptyMap
    /\ lastOp = NoCall
    /\ ExecutorUnused
    /\ LocksUnused
    /\ WatcherNew(ConfigDefault)
    /\ dir = {Path("", "a", "rs")}
    /\ dir_exists = TRUE

\* The consumer task is scheduled as long as it can take a step; nothing
\* makes an observer call next_event.
SpecFlood == InitFlood /\ [][NextFlood]_vars /\ WF_vars(Consumer)

\* The flood, on a watcher that is stopped or dropped at some time.
NextFloodStop ==
    \/ NextFlood
    \/ stop
    \/ drop
    \/ ConsumerExit

SpecFloodStop == InitFlood /\ [][NextFloodStop]_vars /\ WF_vars(Consumer)

\* A new watcher on a new registry and an empty (or missing) directory.
InitEmptyDir ==
    /\ tools = EmptyMap
    /\ lastOp = NoCall
    /\ ExecutorUnused
    /\ LocksUnused
    /\ \E cfg \in Configs : WatcherNew(cfg)
    /\ dir = {}
    /\ dir_exists \in BOOLEAN

SpecEmptyDir == InitEmptyDir /\ [][NextWatch]_vars /\ WF_vars(Consumer)

\* Files with an allow-listed extension, with another extension and with
\* none, in the watch directory itself.
FilterPaths == {Path("", "a", "rs"), Path("", "notes", "txt"), Path("", "Makefile", "")}

NextFilter ==
    \/ StartSubscribe
    \/ StartReadDir
    \/ \E path \in FilterPaths : StartLoadRegister(path)
    \/ StartLoadInsert
    \/ StartReturn
    \/ next_event
    \/ \E path \in FilterPaths : Counted /\ CreateFile(path)
    \/ \E path \in FilterPaths : Counted /\ ModifyFile(path)
    \/ \E path \in FilterPaths : Counted /\ RemoveFile(path)
    \/ ConsumerTake
    \/ ConsumerUnload
    \/ ConsumerRegister
    \/ ConsumerInsert
    \/ ConsumerSend

\* A new watcher with the default configuration on a directory that is
\* empty or holds the three files.
InitFilter ==
    /\ tools = EmptyMap
    /\ lastOp = NoCall
    /\ ExecutorUnused
    /\ LocksUnused
    /\ WatcherNew(ConfigDefault)
    /\ dir \in {{}, FilterPaths}
    /\ dir_exists = TRUE

SpecFilter == InitFilter /\ [][NextFilter]_vars

\* The watcher on a directory of one file that is written to, and callers
\* that look the file's tool up in the registry meanwhile.
NextReload ==
    \/ StartSubscribe
    \/ StartReadDir
    \/ \E path \in WatchPaths : StartLoadRegister(path)
    \/ StartLoadInsert
    \/ StartReturn
    \/ Counted /\ ModifyFile(Path("", "a", "rs"))
    \/ ConsumerTake
    \/ ConsumerUnload
    \/ ConsumerRegister
    \/ ConsumerInsert
    \/ ConsumerSend
    \/ get("a")
    \/ exists("a")
    \/ \E c \in Callers, i \in Inputs : ExecuteByNameLookup(c, "a", i)
    \/ \E c \in Callers : ExecuteByNameRun(c)

SpecReload == InitFlood /\ [][NextReload]_vars

(* ====================================================================== *)
(* The two locks, step by step                                            *)
(* ====================================================================== *)

\* Tasks on the thread pool that call the registry, execute_by_name and the
\* watcher's load and unload at the same time. Here a call is the sequence
\* of its lock operations and of what it does between them, and the tasks'
\* steps interleave.

NumTasks == 2

LockTasks == 1 .. NumTasks

\* A call: the method, the tool name and the path it is given.
Job(op, name, path) == [op |-> op, name |-> name, path |-> path]

\* The calls the tasks make. (register is given a tool that fails, load
\* makes a placeholder; `double` is in the registry from the start or not
\* at all.)
LockJobs ==
    {Job("register", n, NoPath) : n \in Names}
    \cup {Job(op, "double", NoPath) : op \in {"unregister", "get", "exists", "execute_by_name"}}
    \cup {Job(op, "", NoPath) : op \in {"clear", "count", "list_names"}}
    \cup {Job(op, "a", Path("", "a", "rs")) : op \in {"load", "unload"}}

\* One step of a call: taking or releasing a lock, or work on a map.
Instr(i, lock, mode) == [i |-> i, lock |-> lock, mode |-> mode]

\* register, unregister, clear: `self.tools.write().await`, the change of
\* the map, and the guard's drop at the end of the method.
WriteCall ==
    <<Instr("lock", "registry", "write"), Instr("begin", "registry", ""),
      Instr("end", "registry", ""), Instr("unlock", "registry", "")>>

\* get, exists, count, list_names: `self.tools.read().await`, the look at
\* the map, and the guard's drop.
ReadCall ==
    <<Instr("lock", "registry", "read"), Instr("read", "registry", ""),
      Instr("unlock", "registry", "")>>

\* A changed load that keeps the registry's guard until the path is entered
\* in loaded_tools.
LoadProgramHoldsRegistry ==
    <<Instr("lock", "registry", "write"), Instr("begin", "registry", ""),
      Instr("end", "registry", ""), Instr("lock", "loaded_tools", "write"),
      Instr("lt_insert", "loaded_tools", ""), Instr("unlock", "loaded_tools", ""),
      Instr("unlock", "registry", "")>>

\* load_tool_file and load_tool_file_static: register, then
\* `loaded_tools.write().await` and the insert.
LoadProgram ==
    WriteCall \o
    <<Instr("lock", "loaded_tools", "write"), Instr("lt_insert", "loaded_tools", ""),
      Instr("unlock", "loaded_tools", "")>>

\* unload_tool_file and unload_tool_file_static: `loaded_tools.write().await`,
\* the remove and, if it gave a name, unregister, all before the guard's drop.
UnloadProgram ==
    <<Instr("lock", "loaded_tools", "write"), Instr("lt_remove", "loaded_tools", "")>>
    \o WriteCall \o <<Instr("unlock", "loaded_tools", "")>>

\* A changed execute_by_name that keeps the registry's read guard while the
\* tool runs.
ExecuteByNameProgramHoldsLock ==
    <<Instr("lock", "registry", "read"), Instr("read", "registry", ""),
      Instr("run", "", ""), Instr("unlock", "registry", "")>>

\* execute_by_name: registry.get, then the tool is run (or the miss returned).
ExecuteByNameProgram == ReadCall \o <<Instr("run", "", "")>>

Program(job) ==
    CASE job.op \in {"register", "unregister", "clear"} -> WriteCall
      [] job.op \in {"get", "exists", "count", "list_names"} -> ReadCall
      [] job.op = "load" -> LoadProgram
      [] job.op = "unload" -> UnloadProgram
      [] OTHER -> ExecuteByNameProgram

\* The map after the call's change of map m; `found` is the name that
\* unload took out of loaded_tools.
RegistryWrite(job, m, found) ==
    CASE job.op = "register" -> MapInsert(m, job.name, Tool(job.name, "fail"))
      [] job.op = "unregister" -> MapRemove(m, job.name)
      [] job.op = "clear" -> EmptyMap
      [] job.op = "load" -> MapInsert(m, job.name, PlaceholderTool(job.name))
      [] OTHER -> MapRemove(m, found)

\* What the call reads from map m.
RegistryRead(job, m) ==
    CASE job.op = "exists" -> job.name \in DOMAIN m
      [] job.op = "count" -> Cardinality(DOMAIN m)
      [] job.op = "list_names" -> DOMAIN m
      [] OTHER -> MapGet(m, job.name)

\* A task before the first step of its call. `ret` is what the call read
\* from the registry, `expected` what it would have read from abs_tools,
\* `torn` whether another task was within a change of the map then, `out`
\* what execute_by_name returned.
TaskAt(job) ==
    [job |-> job, ip |-> 1, snap |-> EmptyMap, found |-> "", ret |-> "pending",
     expected |-> "pending", torn |-> FALSE, out |-> "pending"]

\* The step the task is at.
Current(t) ==
    IF ltask[t].ip > Len(Program(ltask[t].job))
    THEN Instr("done", "", "")
    ELSE Program(ltask[t].job)[ltask[t].ip]

TheLock(l) == IF l = "registry" THEN reg_lock ELSE lt_lock

SetLock(l, v) ==
    /\ reg_lock' = IF l = "registry" THEN v ELSE reg_lock
    /\ lt_lock' = IF l = "registry" THEN lt_lock ELSE v

Holds(lock, t) == lock.writer = t \/ t \in lock.readers

Waits(lock, t) == \E i \in 1 .. Len(lock.queue) : lock.queue[i].task = t

\* A changed lock that lets everyone in.
CanGrantAlways(lock, mode) == TRUE

\* tokio's RwLock: a writer needs the lock free, a reader needs it free of
\* a writer.
CanGrant(lock, mode) ==
    IF mode = "write"
    THEN lock.writer = NoTask /\ lock.readers = {}
    ELSE lock.writer = NoTask

\* Everything but the maps, the locks and the tasks.
idleVars ==
    <<execVars, lastOp, config, dir_exists, dir, watcher, start, rawq, cons,
      channel, dropped, nevents>>

\* `.read().await` / `.write().await`: the task joins the lock's queue.
Request(t) ==
    /\ Current(t).i = "lock"
    /\ ~Waits(TheLock(Current(t).lock), t)
    /\ SetLock(Current(t).lock,
               [TheLock(Current(t).lock) EXCEPT
                   !.queue = Append(@, [task |-> t, mode |-> Current(t).mode])])
    /\ UNCHANGED <<tools, loaded_tools, ltask, abs_tools, idleVars>>

\* The lock is given to the first in its queue (tokio's RwLock is fair).
Grant(t) ==
    /\ Current(t).i = "lock"
    /\ LET lock == TheLock(Current(t).lock)
           mode == Current(t).mode
       IN  /\ lock.queue # <<>>
           /\ Head(lock.queue).task = t
           /\ CanGrant(lock, mode)
           /\ SetLock(Current(t).lock,
                      [lock EXCEPT !.queue = Tail(@),
                                   !.writer = IF mode = "write" THEN t ELSE @,
                                   !.readers = IF mode = "read" THEN @ \cup {t} ELSE @])
    /\ ltask' = [ltask EXCEPT ![t].ip = @ + 1]
    /\ UNCHANGED <<tools, loaded_tools, abs_tools, idleVars>>

\* The guard is dropped.
Unlock(t) ==
    /\ Current(t).i = "unlock"
    /\ SetLock(Current(t).lock,
               [TheLock(Current(t).lock) EXCEPT
                   !.writer = IF @ = t THEN NoTask ELSE @,
                   !.readers = @ \ {t}])
    /\ ltask' = [ltask EXCEPT ![t].ip = @ + 1]
    /\ UNCHANGED <<tools, loaded_tools, abs_tools, idleVars>>

\* HashMap::insert / remove / clear begins: it works from the map as it is.
Begin(t) ==
    /\ Current(t).i = "begin"
    /\ ltask' = [ltask EXCEPT ![t].ip = @ + 1, ![t].snap = tools]
    /\ UNCHANGED <<tools, loaded_tools, reg_lock, lt_lock, abs_tools, idleVars>>

\* HashMap::insert / remove / clear is through: the map is what the call
\* made of the map it began with.
End(t) ==
    /\ Current(t).i = "end"
    /\ tools' = RegistryWrite(ltask[t].job, ltask[t].snap, ltask[t].found)
    /\ abs_tools' = RegistryWrite(ltask[t].job, abs_tools, ltask[t].found)
    /\ ltask' = [ltask EXCEPT ![t].ip = @ + 1, ![t].snap = EmptyMap]
    /\ UNCHANGED <<loaded_tools, reg_lock, lt_lock, idleVars>>

\* get / contains_key / len / keys on the map.
Read(t) ==
    /\ Current(t).i = "read"
    /\ ltask' = [ltask EXCEPT
                    ![t].ip = @ + 1,
                    ![t].ret = RegistryRead(ltask[t].job, tools),
                    ![t].expected = RegistryRead(ltask[t].job, abs_tools),
                    ![t].torn = \E u \in LockTasks \ {t} : Current(u).i = "end"]
    /\ UNCHANGED <<tools, loaded_tools, reg_lock, lt_lock, abs_tools, idleVars>>

\* load: `loaded_tools.insert(path, tool_name)`
LtInsert(t) ==
    /\ Current(t).i = "lt_insert"
    /\ loaded_tools' = MapInsert(loaded_tools, ltask[t].job.path, ltask[t].job.name)
    /\ ltask' = [ltask EXCEPT ![t].ip = @ + 1]
    /\ UNCHANGED <<tools, reg_lock, lt_lock, abs_tools, idleVars>>

\* unload: `if let Some(tool_name) = loaded_tools.remove(path)`; without an
\* entry the method goes on to its end, where the guard is dropped.
LtRemove(t) ==
    /\ Current(t).i = "lt_remove"
    /\ loaded_tools' = MapRemove(loaded_tools, ltask[t].job.path)
    /\ ltask' = IF ltask[t].job.path \in DOMAIN loaded_tools
                THEN [ltask EXCEPT ![t].ip = @ + 1,
                                   ![t].found = loaded_tools[ltask[t].job.path]]
                ELSE [ltask EXCEPT ![t].ip = Len(Program(ltask[t].job))]
    /\ UNCHANGED <<tools, reg_lock, lt_lock, abs_tools, idleVars>>

\* What execute_by_name returns for what registry.get gave it.
ByNameReturn(found, tool_name, input) ==
    IF found.some
    THEN [kind |-> "Ok", result |-> Execute(found.v, ByNameContext(tool_name, input)).result]
    ELSE [kind |-> "Err", error |-> NotFoundError(tool_name)]

\* execute_by_name after registry.get: the miss is returned, or the tool is
\* run and its result returned.
Run(t) ==
    /\ Current(t).i = "run"
    /\ ltask' = [ltask EXCEPT
                    ![t].ip = @ + 1,
                    ![t].out = ByNameReturn(ltask[t].ret, ltask[t].job.name, JString("5"))]
    /\ UNCHANGED <<tools, loaded_tools, reg_lock, lt_lock, abs_tools, idleVars>>

NextLock ==
    \/ \E t \in LockTasks : Request(t)
    \/ \E t \in LockTasks : Grant(t)
    \/ \E t \in LockTasks : Unlock(t)
    \/ \E t \in LockTasks : Begin(t)
    \/ \E t \in LockTasks : End(t)
    \/ \E t \in LockTasks : Read(t)
    \/ \E t \in LockTasks : LtInsert(t)
    \/ \E t \in LockTasks : LtRemove(t)
    \/ \E t \in LockTasks : Run(t)

\* A registry that is empty beside a watcher that has loaded nothing, or
\* one with `double` and with the tool of a.rs, which the watcher loaded.
LoadedDouble ==
    MapInsert(MapInsert(EmptyMap, "double", Tool("double", "double")),
              "a", PlaceholderTool("a"))

InitLock ==
    /\ lastOp = NoCall
    /\ ExecutorUnused
    /\ config = ConfigDefault
    /\ dir_exists = TRUE
    /\ dir = {Path("", "a", "rs")}
    /\ watcher = "Some"
    /\ start = StartAt("done", {}, NoPath, dir)
    /\ rawq = <<>>
    /\ cons = ConsumerAt("recv")
    /\ channel = <<>>
    /\ dropped = FALSE
    /\ nevents = 0
    /\ \/ tools = EmptyMap /\ loaded_tools = [k \in {} |-> ""]
       \/ tools = LoadedDouble /\ loaded_tools = MapInsert([k \in {} |-> ""], Path("", "a", "rs"), "a")
    /\ abs_tools = tools
    /\ reg_lock = LockFree
    /\ lt_lock = LockFree
    /\ ltask \in [LockTasks -> {TaskAt(job) : job \in LockJobs}]

SpecLock == InitLock /\ [][NextLock]_vars

(* ====================================================================== *)
(* Properties of the registry and of execute_by_name (under Spec)         *)
(* ====================================================================== *)

\* The step is caller c's lookup in execute_by_name (a miss or a hit).
LookupStep(c) ==
    /\ pc[c] = "idle"
    /\ lastOp'.op \in {"execute_by_name", "execute_by_name.get"}
    /\ lastOp'.caller = c

\* The step is the return of caller c's execute_by_name after it ran the tool.
RunStep(c) ==
    /\ pc[c] = "run"
    /\ lastOp'.op = "execute_by_name"
    /\ lastOp'.caller = c

\* The tool body returns (Ok or Err) rather than panics.
Returns(tool, input) == ToolExecute(tool, input).kind \in {"Ok", "Err"}

\* C1: execute_by_name returns Err(ToolNotFound) exactly when the registry
\* holds no tool under the name at the lookup; then nothing is run and the
\* registry is unchanged. When the name is there the call never returns an
\* Err: a tool body that returns (with a value, with an error, or after the
\* timeout) gives Ok(result), a failing body with success = false inside it.
C1_NotFoundExactlyWhenAbsent ==
    [][\A c \in Callers :
        /\ LookupStep(c) =>
            /\ (lastOp'.op = "execute_by_name") <=> (lastOp'.name \notin DOMAIN tools)
            /\ lastOp'.op = "execute_by_name" =>
                /\ lastOp'.ret.kind = "Err"
                /\ lastOp'.ret.error = ToolNotFound(<<"Tool '", lastOp'.name, "' not found">>)
                /\ tools' = tools
                /\ pc'[c] = "idle"
            /\ lastOp'.op = "execute_by_name.get" => pc'[c] = "run"
        /\ RunStep(c) =>
            /\ lastOp'.ret.kind # "Err"
            /\ Returns(handle[c], ctx[c].input) => lastOp'.ret.kind = "Ok"
            /\ ToolExecute(handle[c], ctx[c].input).kind = "Err" =>
                   ~lastOp'.ret.result.success
            /\ tools' = tools
      ]_vars

\* C1 witness: a call returned ToolNotFound for a name that is missing from a
\* registry that holds another tool.
C1_Witness ==
    /\ lastOp.op = "execute_by_name"
    /\ lastOp.ret.kind = "Err"
    /\ lastOp.name \notin DOMAIN tools
    /\ DOMAIN tools # {}

C7_PresentIffLastCallRegister ==
    /\ \A n \in Names :
        /\ (n \in DOMAIN tools) <=> (history[n].call = "register")
        /\ n \in DOMAIN tools => tools[n].name = n
    /\ DOMAIN tools \subseteq Names
    /\ lastOp.op = "get" =>
        /\ lastOp.ret.some <=> (history[lastOp.name].call = "register")
        /\ lastOp.ret.some => lastOp.ret.v.name = lastOp.name
    /\ lastOp.op = "exists" =>
        (lastOp.ret <=> (history[lastOp.name].call = "register"))

\* C7 witness: get found a tool while another name, registered before, has
\* been unregistered since.
C7_Witness ==
    /\ lastOp.op = "get"
    /\ lastOp.ret.some
    /\ lastOp.ret.v.name = lastOp.name
    /\ \E m \in Names : history[m].call = "unregister"

\* C8: unregister returns Ok in every case; on a registered name it removes
\* that entry and no other (count one less, the other tools kept), on an
\* absent name it leaves the registry as it was.
C8_UnregisterFrame ==
    [][lastOp'.op = "unregister" =>
            /\ lastOp'.ret = "Ok"
            /\ IF lastOp'.name \in DOMAIN tools
               THEN /\ DOMAIN tools' = DOMAIN tools \ {lastOp'.name}
                    /\ Cardinality(DOMAIN tools') = Cardinality(DOMAIN tools) - 1
                    /\ \A k \in DOMAIN tools' : tools'[k] = tools[k]
               ELSE tools' = tools
      ]_vars

\* C8 witness: unregister removed an entry and another tool is still there.
C8_Witness ==
    /\ lastOp.op = "unregister"
    /\ lastOp.removed.some
    /\ lastOp.name \notin DOMAIN tools
    /\ DOMAIN tools # {}

\* C9: for a registered name execute_by_name runs the registered tool with a
\* context of that name, that input and the executor's default timeout, and
\* returns Ok of what execute gives for them (when the tool body returns);
\* `double` on "5" gives success = true and output 10.
C9_ByNameDelegates ==
    [][\A c \in Callers :
        /\ (LookupStep(c) /\ lastOp'.name \in DOMAIN tools) =>
            /\ handle'[c] = tools[lastOp'.name]
            /\ ctx'[c] = [tool_name |-> lastOp'.name, input |-> lastOp'.input,
                          timeout |-> default_timeout]
        /\ (RunStep(c) /\ Returns(handle[c], ctx[c].input)) =>
            /\ lastOp'.context.timeout = default_timeout
            /\ lastOp'.ret = [kind |-> "Ok", result |-> Execute(handle[c], ctx[c]).result]
            /\ lastOp'.ret.result.metadata["tool_name"] = JString(lastOp'.name)
            /\ (handle[c].function = "double" /\ ctx[c].input = JString("5")) =>
                  /\ lastOp'.ret.result.success
                  /\ lastOp'.ret.result.output = JNumber(10)
      ]_vars

\* C9 witness: `double` was run by name on "5" by an executor whose default
\* timeout is not the context's 30 seconds, and gave 10.
C9_Witness ==
    /\ lastOp.op = "execute_by_name"
    /\ lastOp.ret.kind = "Ok"
    /\ lastOp.tool.function = "double"
    /\ lastOp.input = JString("5")
    /\ lastOp.ret.result.output = JNumber(10)
    /\ lastOp.context.timeout = ShortTimeoutMs
    /\ default_timeout # ContextDefaultTimeoutMs

(* ====================================================================== *)
(* Properties of execute and execute_parallel (under SpecPar)             *)
(* ====================================================================== *)

Range(f) == {f[i] : i \in DOMAIN f}

\* Result r is what pair i of the batch came to: the result of running pair
\* i's tool on pair i's input, labelled with pair i's tool name, or, for a
\* task that panicked or was cancelled, a "Task execution failed" failure.
SlotHoldsOutcomeOf(r, i) ==
    LET tool == executions[i][1]
        context == executions[i][2]
        out == ToolExecute(tool, context.input)
    IN  CASE task[i].st = "finished" ->
               /\ r.metadata["tool_name"] = JString(context.tool_name)
               /\ out.kind = "Ok" => (r.success /\ r.output = out.value)
               /\ out.kind = "Err" => (~r.success /\ r.error.v = ErrorToString(out.error))
          [] task[i].st \in {"panicked", "cancelled"} ->
               /\ ~r.success
               /\ r.error.some
               /\ r.error.v[1] = "Task execution failed: "
               /\ task[i].st = "panicked" => out.kind = "Panic"
          [] OTHER -> FALSE

\* C2: execute_parallel returns as many results as pairs were submitted,
\* and result i is what pair i came to, in whatever order the tasks ended
\* and whether each succeeded, failed, ran past its timeout, panicked or was
\* cancelled; while it collects, the results so far are those of the first
\* pairs in submission order.
C2_ResultsInSubmissionOrder ==
    /\ Len(results) <= Len(executions)
    /\ \A i \in 1 .. Len(results) : SlotHoldsOutcomeOf(results[i], i)
    /\ par_pc = "done" =>
        /\ lastOp.op = "execute_parallel"
        /\ lastOp.ret = results
        /\ Len(lastOp.ret) = Len(executions)

\* C2 witness: a batch of two different pairs has been returned whose second
\* task ended before its first.
C2_Witness ==
    /\ par_pc = "done"
    /\ Len(lastOp.ret) = 2
    /\ completed = <<2, 1>>
    /\ executions[1] # executions[2]
    /\ lastOp.ret[1] # lastOp.ret[2]

\* C3 as claimed: when the tool body has not returned by the context's
\* timeout, execute stops waiting at the deadline: success = false, a
\* timeout error, a `timeout` metadata entry, and an execution time of at
\* least the timeout and less than the body's running time.
C3_TimeoutStopsWaiting ==
    (/\ lastOp.op = "execute"
     /\ Returns(lastOp.tool, lastOp.context.input)
     /\ ToolExecute(lastOp.tool, lastOp.context.input).took > lastOp.context.timeout) =>
        /\ lastOp.ret.kind = "Return"
        /\ ~lastOp.ret.result.success
        /\ lastOp.ret.result.error.some
        /\ "timeout" \in DOMAIN lastOp.ret.result.metadata
        /\ lastOp.ret.result.execution_time_ms >= lastOp.context.timeout
        /\ lastOp.ret.result.execution_time_ms <
               ToolExecute(lastOp.tool, lastOp.context.input).took

\* C4: when the tool body returns before the deadline, execute returns a
\* result (never an error of its own): success = true with the value the
\* body returned, or success = false with the text of the body's error and
\* a null output.
C4_CompletedInvocation ==
    (/\ lastOp.op = "execute"
     /\ ToolExecute(lastOp.tool, lastOp.context.input).took < lastOp.context.timeout) =>
        LET out == ToolExecute(lastOp.tool, lastOp.context.input)
            r == lastOp.ret
        IN  /\ out.kind = "Ok" =>
                /\ r.kind = "Return"
                /\ r.result.success
                /\ r.result.output = out.value
                /\ r.result.execution_time_ms = out.took
                /\ (lastOp.tool.function = "double" /\ lastOp.context.input = JString("5"))
                      => r.result.output = JNumber(10)
                /\ lastOp.tool.function = "slow_echo" => r.result.output = lastOp.context.input
            /\ out.kind = "Err" =>
                /\ r.kind = "Return"
                /\ ~r.result.success
                /\ r.result.error =
                      SomeText(<<"Tool error: ", "Tool execution failed: ">> \o out.error.msg)
                /\ r.result.output = JNull

\* C4 witness: execute has returned the failure of a tool whose body
\* returned an error well before the deadline.
C4_Witness ==
    /\ lastOp.op = "execute"
    /\ lastOp.tool.function = "fail"
    /\ lastOp.ret.kind = "Return"
    /\ ~lastOp.ret.result.success
    /\ lastOp.ret.result.error.v =
           <<"Tool error: ", "Tool execution failed: ", "Intentional error">>

\* Every ToolExecutionResult handed out so far.
ProducedResults ==
    (IF lastOp.op = "execute" /\ lastOp.ret.kind = "Return"
        THEN {lastOp.ret.result} ELSE {})
    \cup (IF lastOp.op = "execute_by_name" /\ lastOp.ret.kind = "Ok"
        THEN {lastOp.ret.result} ELSE {})
    \cup (IF lastOp.op = "execute_parallel" THEN Range(lastOp.ret) ELSE {})
    \cup Range(results)
    \cup {task[i].result : i \in {j \in DOMAIN task : task[j].st = "finished"}}

\* C10: every result of execute, execute_by_name and execute_parallel has
\* no error when success is true, and an error and a null output when
\* success is false.
C10_SuccessSelectsPayload ==
    \A r \in ProducedResults :
        /\ r.success => ~r.error.some
        /\ ~r.success => (r.error.some /\ r.output = JNull)

\* C10 witness: a returned batch holds both a success and a failure.
C10_Witness ==
    /\ par_pc = "done"
    /\ \E i, j \in 1 .. Len(results) :
        /\ results[i].success /\ results[i].output # JNull
        /\ ~results[j].success /\ results[j].error.some

\* Result r carries the two entries execute puts on every result.
Annotated(r, tool_name) ==
    /\ "tool_name" \in DOMAIN r.metadata
    /\ r.metadata["tool_name"] = JString(tool_name)
    /\ "execution_time" \in DOMAIN r.metadata

\* C11 as claimed: every result of execute, execute_by_name and
\* execute_parallel, in each slot and for each outcome (success, tool error,
\* timeout, task that did not run to completion), has a `tool_name` metadata
\* entry equal to the context's tool name and an `execution_time` entry.
C11_EveryResultAnnotated ==
    /\ (lastOp.op = "execute" /\ lastOp.ret.kind = "Return") =>
            Annotated(lastOp.ret.result, lastOp.context.tool_name)
    /\ (lastOp.op = "execute_by_name" /\ lastOp.ret.kind = "Ok") =>
            Annotated(lastOp.ret.result, lastOp.name)
    /\ \A i \in 1 .. Len(results) :
            Annotated(results[i], executions[i][2].tool_name)

\* The step ends task i with a JoinError (panic or cancellation).
TaskFails(i) ==
    /\ par_pc = "join"
    /\ i \in 1 .. Len(task)
    /\ task[i].st = "spawned"
    /\ task'[i].st \in {"panicked", "cancelled"}

\* C12: in execute_parallel a task that panics or is cancelled touches no
\* sibling task and does not end the call; its slot gets a failure result
\* (success = false), every other slot the result its own invocation
\* produced, and the call returns one result per submitted pair.
C12_FailureStaysInItsSlot ==
    [][/\ \A i \in 1 .. MaxBatch + 1 :
            TaskFails(i) =>
                /\ \A j \in 1 .. Len(task) : j # i => task'[j] = task[j]
                /\ par_pc' = "join"
                /\ results' = results
                /\ executions' = executions
       /\ (par_pc = "join" /\ Len(results') = Len(results) + 1) =>
            LET i == Len(results')
            IN  /\ Len(results') <= Len(executions)
                /\ \A j \in 1 .. Len(results) : results'[j] = results[j]
                /\ task[i].st \in {"panicked", "cancelled"} =>
                        (~results'[i].success /\ results'[i].error.some)
                /\ task[i].st = "finished" =>
                        results'[i] = Execute(executions[i][1], executions[i][2]).result
       /\ (par_pc = "join" /\ par_pc' = "done") =>
            /\ lastOp'.op = "execute_parallel"
            /\ Len(lastOp'.ret) = Len(executions)
            /\ \A i \in 1 .. Len(executions) :
                   task[i].st = "finished" =>
                       lastOp'.ret[i] = Execute(executions[i][1], executions[i][2]).result
      ]_vars

\* C12 witness: a batch of two has been returned whose first task panicked
\* before the second ran; the second slot holds the success of its own tool.
C12_Witness ==
    /\ par_pc = "done"
    /\ Len(lastOp.ret) = 2
    /\ completed = <<1, 2>>
    /\ task[1].st = "panicked"
    /\ task[2].st = "finished"
    /\ ~lastOp.ret[1].success
    /\ lastOp.ret[2].success
    /\ lastOp.ret[2] = Execute(executions[2][1], executions[2][2]).result

(* ====================================================================== *)
(* Properties of the watcher (under SpecWatch, SpecEmptyDir)              *)
(* ====================================================================== *)

\* The files with an allow-listed extension.
Watched == {path \in WatchPaths : ShouldWatchFileStatic(config, path)}

\* Raw item `item` is in the raw channel, not yet taken by the consumer.
Queued(item) == \E i \in 1 .. Len(rawq) : rawq[i] = item

\* Notification `event` is in the notification channel: next_event returns
\* it once those before it have been taken.
Obtainable(event) == \E i \in 1 .. Len(channel) : channel[i] = event

\* start() has returned Ok for a watcher with hot reload whose directory was
\* empty when it was called.
StartedOnEmptyDir ==
    /\ start.pc = "done"
    /\ config.enable_hot_reload
    /\ start.existing = {}

\* C13: once a watcher with hot reload has been started on an empty
\* directory, a Create event for a file with an allow-listed extension
\* leads to a state where the file's base name is registered and
\* ToolCreated for the path can be got from next_event; a Remove event for
\* it leads to a state where the name is not registered and ToolDeleted for
\* the path can be got (as long as the watcher itself is not dropped).
C13_CreateThenRemoveScenario ==
    \A path \in {Path("", "a", "rs"), Path("sub", "b", "rs")} :
        /\ []((StartedOnEmptyDir /\ Queued(RawEvent("Create", path))) =>
                <>(\/ dropped
                   \/ /\ ToolNameOf(path) \in DOMAIN tools
                      /\ Obtainable(WatcherEvent("ToolCreated", path))))
        /\ []((StartedOnEmptyDir /\ Queued(RawEvent("Remove", path))) =>
                <>(\/ dropped
                   \/ /\ ToolNameOf(path) \notin DOMAIN tools
                      /\ Obtainable(WatcherEvent("ToolDeleted", path))))

\* C13 witness: greet-like file a.rs was created and removed again; the
\* registry is empty once more and next_event has just handed out the
\* ToolCreated, with the ToolDeleted next in line.
C13_Witness ==
    /\ start.existing = {}
    /\ start.pc = "done"
    /\ config.enable_hot_reload
    /\ lastOp.op = "next_event"
    /\ lastOp.ret = WatcherEvent("ToolCreated", Path("", "a", "rs"))
    /\ channel = <<WatcherEvent("ToolDeleted", Path("", "a", "rs"))>>
    /\ "a" \notin DOMAIN tools
    /\ Path("", "a", "rs") \notin dir

\* The step ends the consumer's handling of a raw item (its send).
Handled(kind) ==
    /\ cons.pc = "send"
    /\ cons'.pc = "recv"
    /\ cons.item.kind = kind

\* C14 as claimed: handling a Modify event for a path that is in
\* loaded_tools leaves the registry's names and count() as they were before
\* the event and the path mapped to the same tool name, and emits
\* ToolModified for the path. (Stated for events taken after start() has
\* returned.)
C14_ModifyKeepsRegistry ==
    [][(Handled("Modify") /\ cons.had /\ cons.settled) =>
            /\ DOMAIN tools' = cons.names
            /\ Cardinality(DOMAIN tools') = Cardinality(cons.names)
            /\ cons.item.path \in DOMAIN loaded_tools'
            /\ loaded_tools'[cons.item.path] = ToolNameOf(cons.item.path)
            /\ ~dropped => channel' = Append(channel, WatcherEvent("ToolModified", cons.item.path))
      ]_vars

\* The step is the consumer changing the registry or loaded_tools.
ConsumerMutates ==
    /\ cons.pc \in {"unload", "register", "insert"}
    /\ cons'.pc # cons.pc
    /\ tools' # tools \/ loaded_tools' # loaded_tools

\* C15 as claimed: the consumer changes the registry or loaded_tools for a
\* live event only after start() has loaded the files that were there:
\* never before or while start() loads them.
C15_ExistingLoadedBeforeLiveEvents ==
    [][ConsumerMutates => start.pc = "done"]_vars

\* The subscription's scope: the watch directory, and what is below it when
\* `recursive` is set.
InScope(path) == TopLevel(path) \/ config.recursive

\* C16 as claimed: when start() returns Ok with hot reload enabled, every
\* file that was there before the call and has an allow-listed extension
\* (at any depth when `recursive` is true, top level otherwise) has its
\* tool registered under its base name and its entry in loaded_tools.
\* (Stated for calls during which no file was changed.)
C16_ExistingFilesLoaded ==
    [][(start.pc = "loading" /\ start'.pc = "done" /\ lastOp'.ret = "Ok" /\ nevents = 0) =>
            \A path \in start.existing :
                (ShouldWatchFileStatic(config, path) /\ InScope(path)) =>
                    /\ ToolNameOf(path) \in DOMAIN tools'
                    /\ path \in DOMAIN loaded_tools'
                    /\ loaded_tools'[path] = ToolNameOf(path)
      ]_vars

\* Every raw event received so far has been handled, by a watcher that
\* is running and whose start() loaded a flat directory undisturbed.
CaughtUp ==
    /\ IsRunning
    /\ start.pc = "done"
    /\ start.quiet
    /\ \A path \in start.existing : TopLevel(path)
    /\ rawq = <<>>
    /\ cons.pc = "recv"

\* C17 as claimed: with the watcher the only writer of the registry and every
\* received file event handled, a name is registered exactly when the watch
\* directory holds an allow-listed file with that base name, also when
\* several files share a base name.
C17_RegistryMirrorsDirectory ==
    CaughtUp =>
        \A s \in {ToolNameOf(path) : path \in WatchPaths} :
            (s \in DOMAIN tools) <=>
                (\E path \in dir :
                    /\ InScope(path)
                    /\ ShouldWatchFileStatic(config, path)
                    /\ ToolNameOf(path) = s)

\* A raw error is queued before raw item `item`.
QueuedAfterError(item) ==
    \E i, j \in 1 .. Len(rawq) : i < j /\ ~rawq[i].ok /\ rawq[j] = item

\* The consumer has applied the changes of raw item `item` and is about to
\* emit its notification.
Applied(item) == cons.pc = "send" /\ cons.item = item

C19_NotificationNeverBlocks ==
    /\ [](cons.pc = "send" => <>(cons.pc = "recv"))
    /\ [](rawq # <<>> => <>(cons.pc = "unload"))

\* The step is a call of stop() or the drop of the watcher.
StopStep ==
    /\ lastOp'.op \in {"stop", "drop"}
    /\ lastOp' # lastOp

\* C20: stop() and the drop of the watcher leave the registry and
\* loaded_tools as they are and end with is_running() false; stop() on a
\* watcher that is not running changes nothing of the watcher at all.
C20_StopLeavesToolsLoaded ==
    [][StopStep =>
            /\ tools' = tools
            /\ loaded_tools' = loaded_tools
            /\ watcher' = "None"
            /\ (lastOp'.op = "stop" /\ watcher = "None") => UNCHANGED watchVars
      ]_vars

\* C20 witness: a running watcher that had loaded a tool has been stopped;
\* the tool is still registered and its file still in loaded_tools.
C20_Witness ==
    /\ lastOp.op = "stop"
    /\ lastOp.was = "Some"
    /\ ~IsRunning
    /\ DOMAIN loaded_tools # {}
    /\ \A path \in DOMAIN loaded_tools : loaded_tools[path] \in DOMAIN tools

(* ====================================================================== *)
(* Properties of the watcher's life cycle (under SpecWatch)               *)
(* ====================================================================== *)

\* The last call on the watcher was start() and returned `ret`.
StartReturned(ret) == lastOp = [op |-> "start", ret |-> ret]

\* C21: is_running() is true exactly while the watcher is watching: it is
\* false after construction, false after start() with hot reload disabled,
\* true after a start() that returned Ok with hot reload enabled, false
\* after stop(), and false after a start() that returned an error.
\* (is_running() takes `&self`: it is not called while start() is under way.)
C21_RunningExactlyWhileWatching ==
    start.pc \in {"idle", "done"} =>
        /\ lastOp = NoCall => ~IsRunning
        /\ StartReturned("Ok") => (IsRunning <=> config.enable_hot_reload)
        /\ lastOp.op = "stop" => ~IsRunning
        /\ StartReturned("Err") => ~IsRunning

\* The step is a call of start() from its first to its last instruction.
StartCall == start.pc = "idle" /\ start'.pc = "done"

\* C22: with enable_hot_reload = false, start() returns Ok and changes
\* nothing: the watch directory is not created, no subscription is
\* installed, no consumer task is spawned, no file is loaded, the registry
\* and loaded_tools are as before, and is_running() is false afterwards.
C22_DisabledStartChangesNothing ==
    [][StartCall /\ ~config.enable_hot_reload =>
          /\ StartReturned("Ok")'
          /\ UNCHANGED <<dir_exists, dir, watcher, rawq, cons, tools, loaded_tools,
                         channel>>
          /\ cons.pc = "none"
          /\ ~IsRunning']_vars

\* start() has returned on a disabled watcher whose directory holds files
\* it would load, and the registry is empty.
C22_Witness ==
    /\ StartReturned("Ok")
    /\ ~config.enable_hot_reload
    /\ \E path \in dir : TopLevel(path) /\ ShouldWatchFile(path)
    /\ tools = EmptyMap
    /\ loaded_tools = EmptyMap
    /\ cons.pc = "none"
    /\ ~IsRunning

(* ====================================================================== *)
(* The extension filter (under SpecFilter)                                *)
(* ====================================================================== *)

\* The path's extension is in file_extensions (a path without an extension
\* has none that could be).
AllowListed(path) == path.ext # "" /\ path.ext \in config.file_extensions

\* The consumer is handling a Create or Modify event, or start() is loading
\* a file it found, for `path`.
LoadingFor(path) ==
    \/ /\ cons.pc \in {"unload", "register", "insert", "send"}
       /\ cons.item.kind \in {"Create", "Modify"}
       /\ cons.item.path = path
    \/ start.pc = "loading" /\ path \in start.entries
    \/ start.pc = "insert" /\ start.path = path

\* C23: a Create or Modify event, or the startup enumeration, for a path
\* whose extension is not in file_extensions (or that has none) changes
\* neither the registry nor loaded_tools and sends no notification: such a
\* path is never being loaded, no tool has its name, loaded_tools has no
\* entry for it and no ToolCreated or ToolModified names it. A path with an
\* allow-listed extension is registered under its file name without the
\* extension.
C23_OnlyAllowListedFilesLoaded ==
    /\ [](\A path \in FilterPaths : ~AllowListed(path) =>
              /\ ~LoadingFor(path)
              /\ path.stem \notin DOMAIN tools
              /\ path \notin DOMAIN loaded_tools
              /\ \A i \in 1 .. Len(channel) :
                     \/ channel[i].ev \notin {"ToolCreated", "ToolModified"}
                     \/ channel[i].path # path)
    /\ [][(cons.pc = "register" /\ cons'.pc = "insert" =>
               /\ AllowListed(cons.item.path)
               /\ DOMAIN tools' = DOMAIN tools \cup {cons.item.path.stem}
               /\ tools'[cons.item.path.stem].name = cons.item.path.stem)
          /\ (start.pc = "loading" /\ start'.pc = "insert" =>
               /\ AllowListed(start'.path)
               /\ DOMAIN tools' = DOMAIN tools \cup {start'.path.stem}
               /\ tools'[start'.path.stem].name = start'.path.stem)
          /\ (\A path \in DOMAIN loaded_tools' \ DOMAIN loaded_tools :
                  loaded_tools'[path] = path.stem)]_vars

\* start() found files of all three kinds and loaded a.rs alone; the files
\* without an allow-listed extension changed since, the consumer is through
\* with those events, and nothing was registered or notified for them.
C23_Witness ==
    /\ start.existing = FilterPaths
    /\ StartReturned("Ok")
    /\ nevents = MaxEvents
    /\ rawq = <<>>
    /\ cons.pc = "recv"
    /\ channel = <<>>
    /\ DOMAIN tools = {"a"}
    /\ DOMAIN loaded_tools = {Path("", "a", "rs")}

(* ====================================================================== *)
(* The tasks that load and unload (under SpecWatch)                       *)
(* ====================================================================== *)

\* start() is within load_tool_file: it has registered the tool and not yet
\* entered it in loaded_tools.
StartLoads == start.pc = "insert"

\* The consumer task is within load_tool_file_static, or within
\* reload_tool_file_static between its unload and its load.
ConsumerLoads ==
    \/ cons.pc = "insert"
    \/ cons.pc = "register" /\ cons.item.kind = "Modify"

\* C26: at any time at most one task of a watcher is loading or unloading:
\* start()'s load of the files it found never overlaps a load or reload by
\* the consumer task.
C26_OneTaskLoadsAtATime == ~(StartLoads /\ ConsumerLoads)

(* ====================================================================== *)
(* Debouncing (under SpecWatch)                                           *)
(* ====================================================================== *)

\* The file changes of a run come as a burst: each one a tenth of the
\* default debounce interval after the one before.
BurstGapMs == ConfigDefault.debounce_ms \div 10

\* The time from the first file change to the last one so far.
BurstSpanMs == IF nevents = 0 THEN 0 ELSE (nevents - 1) * BurstGapMs

\* The ToolCreated and ToolModified notifications for `path` that wait in
\* the notification channel.
LoadNotifications(path) ==
    {i \in 1 .. Len(channel) :
        /\ channel[i].ev \in {"ToolCreated", "ToolModified"}
        /\ channel[i].path = path}

\* C27: Create and Modify events for one path that arrive within the
\* debounce interval are collapsed into one handled event: they make one
\* notification, not one per raw event.
C27_BurstHandledOnce ==
    BurstSpanMs < config.debounce_ms =>
        \A path \in WatchPaths : Cardinality(LoadNotifications(path)) <= 1

(* ====================================================================== *)
(* Reload as seen by the registry's readers (under SpecReload)            *)
(* ====================================================================== *)

\* The consumer is within reload_tool_file_static for `path`, between the
\* unload and the load, for a file that was loaded, and start() had returned
\* when the handling began.
ReloadGap(path) ==
    /\ cons.pc = "register"
    /\ cons.item = RawEvent("Modify", path)
    /\ cons.had
    /\ cons.settled

\* C29: the reload for a Modify event is an unregister followed by a
\* register: between the two the tool's name is absent from the registry
\* although the file is there, and a get, exists or execute_by_name for the
\* name made then finds no tool (None, false, ToolNotFound).
C29_ReloadLeavesGap ==
    /\ [](ReloadGap(Path("", "a", "rs")) =>
             Path("", "a", "rs") \in dir /\ "a" \notin DOMAIN tools)
    /\ [][ReloadGap(Path("", "a", "rs")) /\ lastOp' # lastOp =>
             /\ lastOp'.op = "get" => ~lastOp'.ret.some
             /\ lastOp'.op = "exists" => ~lastOp'.ret
             /\ \A c \in Callers : LookupStep(c) =>
                    lastOp' = [op |-> "execute_by_name", caller |-> c, name |-> "a",
                               input |-> lastOp'.input,
                               ret |-> [kind |-> "Err", error |-> NotFoundError("a")]]
       ]_vars

\* execute_by_name for `a` has returned ToolNotFound while the consumer is
\* between the unload and the load of a reload of a.rs, a file that was
\* there when start() was called and still is.
C29_Witness ==
    /\ ReloadGap(Path("", "a", "rs"))
    /\ Path("", "a", "rs") \in start.existing
    /\ Path("", "a", "rs") \in dir
    /\ lastOp.op = "execute_by_name"
    /\ lastOp.name = "a"
    /\ lastOp.ret = [kind |-> "Err", error |-> NotFoundError("a")]

(* ====================================================================== *)
(* The consumer task after stop() (under SpecFloodStop)                   *)
(* ====================================================================== *)

\* The consumer task was spawned and has not ended.
ConsumerAlive == cons.pc \notin {"none", "exited"}

\* C30: after stop() or drop the consumer task handles the raw events that
\* are queued and ends; once it has ended, neither the registry nor
\* loaded_tools changes any more.
C30_ConsumerEndsAfterStop ==
    /\ [](watcher = "None" /\ ConsumerAlive => <>(cons.pc = "exited"))
    /\ [][cons.pc = "exited" => UNCHANGED <<tools, loaded_tools>>]_vars

(* ====================================================================== *)
(* Properties of the locks (under SpecLock)                               *)
(* ====================================================================== *)

\* Every task's call has returned.
AllDone == \A t \in LockTasks : Current(t).i = "done"

\* The tasks' calls are register calls with names that differ, on a
\* registry that was empty.
DistinctRegisters ==
    /\ \A t \in LockTasks : ltask[t].job.op = "register"
    /\ \A t, u \in LockTasks : t # u => ltask[t].job.name # ltask[u].job.name
    /\ loaded_tools = [k \in {} |-> ""]

\* C24: every interleaving of concurrent calls on one registry is equivalent
\* to the calls made one after the other, in the order in which they worked
\* on the map: a writer has the map to itself, readers overlap with readers
\* only, the map is what the calls made one by one give (abs_tools), every
\* reader read what it would have read then and never beside a change under
\* way; and k register calls with k names end with count() = k.
C24_RegistryCallsLinearizable ==
    /\ reg_lock.writer # NoTask => reg_lock.readers = {}
    /\ \A t \in LockTasks :
          /\ Current(t).i \in {"begin", "end"} /\ Current(t).lock = "registry" =>
                reg_lock.writer = t
          /\ Current(t).i = "read" => t \in reg_lock.readers
          /\ ltask[t].ret = ltask[t].expected
          /\ ~ltask[t].torn
    /\ tools = abs_tools
    /\ AllDone /\ DistinctRegisters => Cardinality(DOMAIN tools) = NumTasks

\* A register call is within its change of the map while another task's
\* read call waits for the lock.
C24_Witness ==
    \E t, u \in LockTasks :
        /\ ltask[t].job.op = "register"
        /\ Current(t).i = "end"
        /\ ltask[u].job.op \in {"get", "exists", "count", "list_names"}
        /\ Waits(reg_lock, u)

\* The task is within execute_by_name, has its tool from the registry and
\* has not run it yet.
InFlight(t) == Current(t).i = "run" /\ ltask[t].ret.some

\* C25: once execute_by_name has its tool from the registry, it holds and
\* awaits no lock, so an unregister, clear or register of that name is
\* given the lock as if the invocation were not there; the change leaves the
\* invocation as it is, and the invocation returns Ok of what the tool it
\* got at the lookup gives, whatever the registry holds then.
C25_InFlightInvocationUnaffected ==
    /\ [](\A t \in LockTasks : Current(t).i = "run" =>
             /\ ~Holds(reg_lock, t) /\ ~Waits(reg_lock, t)
             /\ ~Holds(lt_lock, t) /\ ~Waits(lt_lock, t))
    /\ [](\A t, w \in LockTasks :
             (/\ InFlight(t)
              /\ Current(w).i = "lock" /\ Current(w).mode = "write"
              /\ reg_lock.queue # <<>> /\ Head(reg_lock.queue).task = w
              /\ \A u \in LockTasks \ {t} : ~Holds(reg_lock, u)) => ENABLED Grant(w))
    /\ [][\A t \in LockTasks : InFlight(t) =>
             /\ tools' # tools => ltask'[t] = ltask[t]
             /\ ltask'[t] # ltask[t] =>
                   /\ Current(t)'.i = "done"
                   /\ ltask'[t].out =
                         [kind |-> "Ok",
                          result |-> Execute(ltask[t].ret.v,
                                             [tool_name |-> ltask[t].job.name,
                                              input |-> JString("5"),
                                              timeout |-> default_timeout]).result]
                   /\ ltask[t].ret.v.function = "double" =>
                         /\ ltask'[t].out.result.success
                         /\ ltask'[t].out.result.output = JNumber(10)]_vars

\* execute_by_name has `double` from the registry and has not run it yet;
\* meanwhile another task's unregister or clear has returned and the name is
\* gone from the registry.
C25_Witness ==
    \E t, u \in LockTasks :
        /\ InFlight(t)
        /\ ltask[t].job.name \notin DOMAIN tools
        /\ ltask[u].job.op \in {"unregister", "clear"}
        /\ Current(u).i = "done"

\* C28: no interleaving of load and unload with readers and writers of the
\* registry reaches a deadlock: as long as a call has not returned some task
\* can take a step; and no task waits for loaded_tools while it holds the
\* registry's lock.
C28_NoDeadlock ==
    /\ ~AllDone => ENABLED NextLock
    /\ \A t \in LockTasks : Waits(lt_lock, t) => ~Holds(reg_lock, t)

\* An unload holds loaded_tools and waits for the registry's lock, which a
\* load holds; the load is given the lock of loaded_tools later on.
C28_Witness ==
    \E t, u \in LockTasks :
        /\ ltask[t].job.op = "unload"
        /\ Holds(lt_lock, t)
        /\ Waits(reg_lock, t)
        /\ ltask[u].job.op = "load"
        /\ Holds(reg_lock, u)
====
